---- MODULE Spec2Model ----
(***************************************************************************)
(* A model of sagus (src/src/index.ts, src/src/nodejs.ts and the browser   *)
(* build in src/unnamed/part_000): the identifier generator with its       *)
(* process-wide state (mac, lastTime, autoIDGenerators) next to the        *)
(* background work of hash and compareHash, the module body that computes  *)
(* mac, and the pure utilities (iterate, trimObject, pickKeys, removeKeys, *)
(* isValid, isValidObject, encode, decode).                                *)
(*                                                                         *)
(* JavaScript strings whose characters the code never inspects (namespace  *)
(* keys, prefixes, identifiers) are TLA+ strings; strings the code looks   *)
(* into are sequences: of one-character strings for String.prototype.trim  *)
(* and the hardware addresses, of code unit numbers for encode and decode. *)
(***************************************************************************)
EXTENDS Integers, Sequences, FiniteSets, TLC

VARIABLES
    pid,               \* index.ts:20  process.pid.toString(36)
    mac,               \* index.ts:21  interface identity
    netInterfaces,     \* index.ts:26  os.networkInterfaces(): the hardware addresses
                       \*              of each interface, in enumeration order
    initPc,            \* "start" before the module body has run, "done" after
    lastTime,          \* index.ts:22
    autoIDGenerators,  \* index.ts:23  own properties: key -> the generator's id
    ret,               \* the latest call of the identifier generator and its outcome
    issued,            \* history: <<[time, core]>> of every genUID call, in call order
    lastID,            \* history: key -> the value genAutoID last returned for it
                       \*          since its last reset (-1: none)
    justReset,         \* history: keys reset and not passed to genAutoID since
    pending,           \* bcrypt operations started by hash / compareHash and
                       \* still running in the background
    settled,           \* history: the number of such operations that have completed
    itInput,           \* iterate: the input value
    itPc,              \* iterate: the generator's position
    itIndex,           \* iterate: the loop variable index
    itYielded,         \* iterate: the pairs yielded so far (what a traversal sees)
    itResult,          \* iterate: the latest result of next()
    trimIn,            \* trimObject: the argument obj
    trimOut,           \* trimObject: the returned object
    keysObj,           \* pickKeys / removeKeys: the argument obj
    keysArg,           \* pickKeys / removeKeys: the argument keys
    keysOp,            \* pickKeys / removeKeys: which of the two was called
    keysOut,           \* pickKeys / removeKeys: the returned object
    validIn,           \* isValid / isValidObject: the argument
    validOp,           \* isValid / isValidObject: which of the two was called
    validOut,          \* isValid / isValidObject: the returned boolean
    encData,           \* encode: the argument data
    encEncoding,       \* encode / decode: the argument encoding
    encPc,             \* encode / decode: which calls have been made
    encStr,            \* encode: the returned string (decode's argument)
    encOut             \* decode: the returned value, or the error raised

hostVars == <<pid, mac, netInterfaces, initPc>>
genVars  == <<hostVars, lastTime, autoIDGenerators, ret, issued, lastID, justReset,
             pending, settled>>
iterVars == <<itInput, itPc, itIndex, itYielded, itResult>>
trimVars == <<trimIn, trimOut>>
keysVars == <<keysObj, keysArg, keysOp, keysOut>>
validVars == <<validIn, validOp, validOut>>
encVars  == <<encData, encEncoding, encPc, encStr, encOut>>
vars     == <<genVars, iterVars, trimVars, keysVars, validVars, encVars>>

(***************************************************************************)
(* Bounds of the model.                                                    *)
(***************************************************************************)
FirstClock == 34   \* the earliest wall-clock reading
MaxClock == 2      \* wall-clock readings are FirstClock .. FirstClock + MaxClock
MaxUIDs  == 2      \* genUID calls in one run
MaxId    == 2      \* largest value a namespace counter hands out
MaxLen   == 3      \* elements or entries of the inputs of iterate
MaxDepth == 2      \* nesting depth of the objects given to trimObject
MaxKeys  == 2      \* length of the key lists given to pickKeys and removeKeys
MaxSize  == 2      \* characters, elements or entries of the values given to isValid
MaxHashes == 2     \* hash and compareHash calls in one run
MaxAddrs == 2      \* hardware addresses of one network interface

(***************************************************************************)
(* Number.prototype.toString(radix) for a non-negative integer.            *)
(***************************************************************************)
Digits ==
    <<"0", "1", "2", "3", "4", "5", "6", "7", "8", "9", "a", "b", "c", "d", "e",
      "f", "g", "h", "i", "j", "k", "l", "m", "n", "o", "p", "q", "r", "s", "t",
      "u", "v", "w", "x", "y", "z">>

RECURSIVE NumberToString(_, _)
NumberToString(n, radix) ==
    IF n < radix
    THEN Digits[n + 1]
    ELSE NumberToString(n \div radix, radix) \o Digits[(n % radix) + 1]

\* sequences of length n over S
SeqsOfLen(S, n) == [1 .. n -> S]

(***************************************************************************)
(* JavaScript values.  t is the kind of value; n the number (or 0 / 1 of a *)
(* boolean); nan marks NaN; s the characters of a string; e the own        *)
(* enumerable properties, in enumeration order, of an array (keys "0",     *)
(* "1", ...), of a plain object, or of a class instance such as a Date     *)
(* (which has none).                                                       *)
(***************************************************************************)
Value(t) == [t |-> t, n |-> 0, nan |-> FALSE, s |-> <<>>, e |-> <<>>]

Undefined   == Value("undefined")
Null        == Value("null")
Bool(b)     == [Value("boolean") EXCEPT !.n = IF b THEN 1 ELSE 0]
Num(n)      == [Value("number") EXCEPT !.n = n]
NaN         == [Value("number") EXCEPT !.nan = TRUE]
Str(chars)  == [Value("string") EXCEPT !.s = chars]
Obj(es)     == [Value("plain") EXCEPT !.e = es]
Arr(elems)  == [Value("array") EXCEPT
                  !.e = [i \in 1 .. Len(elems) |->
                           [k |-> NumberToString(i - 1, 10), v |-> elems[i]]]]
DateObject  == Value("date")

\* typeof value
TypeOf(v) ==
    IF v.t \in {"null", "plain", "array", "date"} THEN "object" ELSE v.t

\* Array.isArray(value)
IsArray(v) == v.t = "array"

(***************************************************************************)
(* Namespace arguments: a string, an integer, or none (the default '').    *)
(***************************************************************************)
NsUndefined == [type |-> "undefined", num |-> 0, str |-> ""]
NsString(s) == [type |-> "string", num |-> 0, str |-> s]
NsNumber(n) == [type |-> "number", num |-> n, str |-> ""]

Namespaces ==
    { NsUndefined, NsString(""), NsString("1"), NsNumber(1),
      NsString("constructor"), NsString("__proto__") }

\* the parameter default: namespace = ''
DefaultNamespace(ns) == IF ns.type = "undefined" THEN NsString("") ELSE ns

\* autoIDGenerators[namespace]: the property key of a string | number
\* (variant: a number keeps a key of its own, apart from the string of its digits)
ToPropertyKey_Typed(ns) ==
    IF ns.type = "number" THEN "#" \o NumberToString(ns.num, 10) ELSE ns.str

ToPropertyKey(ns) ==
    IF ns.type = "number" THEN NumberToString(ns.num, 10) ELSE ns.str

NamespaceKey(ns) == ToPropertyKey(DefaultNamespace(ns))

Keys == { NamespaceKey(ns) : ns \in Namespaces }

(***************************************************************************)
(* autoIDGenerators is an object literal: a lookup that finds no own       *)
(* property continues on Object.prototype.                                 *)
(***************************************************************************)
ObjectPrototypeKeys ==
    { "constructor", "toString", "toLocaleString", "valueOf", "hasOwnProperty",
      "isPrototypeOf", "propertyIsEnumerable", "__proto__", "__defineGetter__",
      "__defineSetter__", "__lookupGetter__", "__lookupSetter__" }

\* the value of autoIDGenerators[key]
Lookup(reg, key) ==
    IF key \in DOMAIN reg THEN "generator"
    ELSE IF key \in ObjectPrototypeKeys THEN "inherited"
    ELSE "undefined"

\* delete autoIDGenerators[key]: removes an own property, if there is one
\* (variant: the reset discards every counter)
DeleteOwn_All(reg, key) == [k \in {} |-> 0]

DeleteOwn(reg, key) == [k \in (DOMAIN reg) \ {key} |-> reg[k]]

\* autoIDGenerators[key] = autoIDGenerator(): a generator whose id is 0
\* (variant: the registry is replaced by one holding the new generator only)
SetOwn_Replace(reg, key) == [k \in {key} |-> 0]

SetOwn(reg, key) == [k \in (DOMAIN reg) \cup {key} |-> IF k = key THEN 0 ELSE reg[k]]

EmptyRegistry == [k \in {} |-> 0]

(***************************************************************************)
(* The record of a call.                                                   *)
(***************************************************************************)
NoCall ==
    [op |-> "none", ns |-> NsUndefined, key |-> "", raised |-> FALSE, value |-> -1,
     prevID |-> -1, afterReset |-> FALSE, hadCounter |-> FALSE,
     time |-> -1, now |-> -1, core |-> "", uid |-> "", prefix |-> "", suffix |-> "",
     prevUid |-> "", prevPlain |-> FALSE,
     pendingAt |-> 0, settledAt |-> 0, prevSettledAt |-> -1]

\* the record of a call made now: the background operations pending and
\* completed at the call, and those completed at the call before it
Call(op) ==
    [NoCall EXCEPT !.op = op, !.pendingAt = pending, !.settledAt = settled,
                   !.prevSettledAt = IF ret.op = "none" THEN -1 ELSE ret.settledAt]

(***************************************************************************)
(* getUniqueTime, index.ts:44-48, with time the reading of Date.now().     *)
(***************************************************************************)
\* (variant: time >= last, so a repeated reading is handed out again)
getUniqueTime_NoBumpOnTie(last0, time) ==
    LET last == IF last0 = 0 THEN time ELSE last0
    IN  IF time >= last THEN time ELSE last + 1

getUniqueTime(last0, time) ==
    LET last == IF last0 = 0 THEN time ELSE last0    \* lastTime || time
    IN  IF time > last THEN time ELSE last + 1

\* Date.now(): milliseconds since the epoch, which the system clock keeps
\* positive; successive readings may advance, repeat or go back
ClockReadings == FirstClock .. (FirstClock + MaxClock)

\* mac + pid + getUniqueTime().toString(36): the identifier without prefix and suffix
\* (variant: the timestamp is left out)
Core_NoTime(t) == mac \o pid

Core(t) == mac \o pid \o NumberToString(t, 36)

\* the (prefix, suffix) arguments tried; <<"", "">> is the call genUID()
Affixes == { <<"", "">>, <<"p-", "-s">> }

genUID(prefix, suffix) ==
    /\ Len(issued) < MaxUIDs
    /\ \E time \in ClockReadings :
         LET t == getUniqueTime(lastTime, time) IN
           /\ lastTime' = t
           /\ issued' = Append(issued, [time |-> t, core |-> Core(t)])
           /\ ret' = [Call("genUID") EXCEPT !.time = t, !.now = time,
                        !.core = Core(t),
                        !.uid = prefix \o Core(t) \o suffix,
                        !.prefix = prefix, !.suffix = suffix,
                        !.prevUid = IF ret.op = "genUID" THEN ret.uid ELSE "",
                        !.prevPlain = (ret.op = "genUID" /\ ret.prefix = ""
                                         /\ ret.suffix = "")]
    /\ UNCHANGED <<hostVars, autoIDGenerators, lastID, justReset, pending, settled>>

(***************************************************************************)
(* genAutoID, index.ts:83-90, with the generator of index.ts:50-55: next() *)
(* returns id and leaves id + 1.  An inherited property is not undefined   *)
(* and has no next method: generator.next() raises a TypeError before      *)
(* anything is stored.                                                     *)
(***************************************************************************)
\* the outcome of genAutoID on the key: what it raises or returns, and the
\* registry it leaves
AutoID(reg, key) ==
    LET kind == Lookup(reg, key)
        reg1 == IF kind = "undefined" THEN SetOwn(reg, key) ELSE reg
    IN  IF kind = "inherited"
        THEN [raised |-> TRUE, value |-> -1, reg |-> reg]
        ELSE [raised |-> FALSE, value |-> reg1[key],
              reg |-> [reg1 EXCEPT ![key] = @ + 1]]

genAutoID(ns) ==
    LET key == NamespaceKey(ns)
        out == AutoID(autoIDGenerators, key)
    IN  /\ out.value <= MaxId
        /\ autoIDGenerators' = out.reg
        /\ ret' = [Call("genAutoID") EXCEPT !.ns = ns, !.key = key,
                     !.raised = out.raised, !.value = out.value,
                     !.prevID = lastID[key], !.afterReset = (key \in justReset),
                     !.hadCounter = (key \in DOMAIN autoIDGenerators)]
        /\ lastID' = IF out.raised THEN lastID ELSE [lastID EXCEPT ![key] = out.value]
        /\ justReset' = justReset \ {key}
        /\ UNCHANGED <<hostVars, lastTime, issued, pending, settled>>

(***************************************************************************)
(* resetAutoID, index.ts:97-99.  Generators and inherited properties are   *)
(* truthy; delete on a key that is no own property changes nothing.        *)
(***************************************************************************)
resetAutoID(ns) ==
    LET key  == NamespaceKey(ns)
        kind == Lookup(autoIDGenerators, key)
    IN  /\ autoIDGenerators' =
             IF kind # "undefined" THEN DeleteOwn(autoIDGenerators, key)
             ELSE autoIDGenerators
        /\ ret' = [Call("resetAutoID") EXCEPT !.ns = ns, !.key = key,
                     !.prevID = lastID[key],
                     !.hadCounter = (key \in DOMAIN autoIDGenerators)]
        /\ lastID' = [lastID EXCEPT ![key] = -1]
        /\ justReset' = justReset \cup {key}
        /\ UNCHANGED <<hostVars, lastTime, issued, pending, settled>>

(***************************************************************************)
(* hash, index.ts:119-121, and compareHash, index.ts:130-132: each hands   *)
(* the work to bcrypt and returns its promise at once; bcrypt computes in  *)
(* the background and the promise settles at some later point between two *)
(* calls.  Calls run to completion one at a time on the single JavaScript  *)
(* thread.                                                                 *)
(***************************************************************************)
hash ==
    /\ pending + settled < MaxHashes
    /\ pending' = pending + 1
    /\ ret' = Call("hash")
    /\ UNCHANGED <<hostVars, lastTime, autoIDGenerators, issued, lastID, justReset,
                   settled>>

compareHash ==
    /\ pending + settled < MaxHashes
    /\ pending' = pending + 1
    /\ ret' = Call("compareHash")
    /\ UNCHANGED <<hostVars, lastTime, autoIDGenerators, issued, lastID, justReset,
                   settled>>

\* a background operation completes and its promise settles
\* (variant: the completion clears lastTime)
bcryptSettle_ClearsLastTime ==
    /\ pending > 0
    /\ pending' = pending - 1
    /\ settled' = settled + 1
    /\ lastTime' = 0
    /\ UNCHANGED <<hostVars, autoIDGenerators, ret, issued, lastID, justReset>>

bcryptSettle ==
    /\ pending > 0
    /\ pending' = pending - 1
    /\ settled' = settled + 1
    /\ UNCHANGED <<hostVars, lastTime, autoIDGenerators, ret, issued, lastID, justReset>>

\* the namespaces used next to background operations
AsyncNamespaces == { NsUndefined, NsNumber(1) }

(***************************************************************************)
(* Module initialisation, index.ts:20-37.                                  *)
(***************************************************************************)
\* a hardware address is a string of 17 characters, six pairs of hex digits
\* joined by colons; the addresses used here start with four zero pairs
MacAddress(fifth, sixth) ==
    <<"0", "0", ":", "0", "0", ":", "0", "0", ":", "0", "0", ":">>
      \o fifth \o <<":">> \o sixth

ZeroAddress == MacAddress(<<"0", "0">>, <<"0", "0">>)

\* the value of a digit character in Digits
DigitValue(c) == (CHOOSE i \in 1 .. Len(Digits) : Digits[i] = c) - 1

IsDecimalDigit(c) == c \in { Digits[i] : i \in 1 .. 10 }

\* macAddr.replace(/\:|\D+/gi, ''): colons and every run of characters that
\* are not decimal digits are removed
StripNonDigits(macAddr) == SelectSeq(macAddr, IsDecimalDigit)

\* parseInt(str) of a string of decimal digits: the number, NaN when empty
RECURSIVE DigitsValue(_)
DigitsValue(ds) ==
    IF ds = <<>> THEN 0
    ELSE 10 * DigitsValue(SubSeq(ds, 1, Len(ds) - 1)) + DigitValue(ds[Len(ds)])

ParseInt(str) == IF str = <<>> THEN NaN ELSE Num(DigitsValue(str))

\* parseInt(macAddr.replace(/\:|\D+/gi, '')).toString(36)
MacIdentity(macAddr) ==
    LET n == ParseInt(StripNonDigits(macAddr))
    IN  IF n.nan THEN "NaN" ELSE NumberToString(n.n, 36)

\* the inner loop from the given index (0-based as in the code): the identity
\* of the first address that is not empty and not all-zero, with found FALSE
\* when the interface has none
RECURSIVE ScanAddresses(_, _)
ScanAddresses(netInterface, index) ==
    IF index < Len(netInterface)
    THEN LET macAddr == netInterface[index + 1]
         IN IF macAddr # <<>> /\ macAddr # ZeroAddress
            THEN [found |-> TRUE, mac |-> MacIdentity(macAddr)]
            ELSE ScanAddresses(netInterface, index + 1)
    ELSE [found |-> FALSE, mac |-> ""]

\* the outer loop from the i-th interface: break loop at the first address found
RECURSIVE ScanInterfaces(_, _)
ScanInterfaces(interfaces, i) ==
    IF i > Len(interfaces) THEN ""
    ELSE LET r == ScanAddresses(interfaces[i], 0)
         IN IF r.found THEN r.mac ELSE ScanInterfaces(interfaces, i + 1)

\* the module body, index.ts:25-37 (process.pid is a positive number)
moduleInit ==
    /\ initPc = "start"
    /\ initPc' = "done"
    /\ mac' = ScanInterfaces(netInterfaces, 1)
    /\ UNCHANGED <<pid, netInterfaces, lastTime, autoIDGenerators, ret, issued, lastID,
                   justReset, pending, settled>>

\* hosts: up to two interfaces with up to MaxAddrs addresses each, among the
\* all-zero address, 00:00:00:00:02:42 and 00:00:00:00:00:1f
HardwareAddresses ==
    { ZeroAddress, MacAddress(<<"0", "2">>, <<"4", "2">>),
      MacAddress(<<"0", "0">>, <<"1", "f">>) }
NetInterfaceLists == UNION { SeqsOfLen(HardwareAddresses, n) : n \in 0 .. MaxAddrs }
Hosts ==
    {<<>>} \cup { <<a>> : a \in NetInterfaceLists }
           \cup { <<a, b>> : a \in NetInterfaceLists, b \in NetInterfaceLists }

\* process.pid; a host without network interface and one whose only address is
\* 00:00:00:00:02:42
ProcessPids == {47}
GeneratorHosts == { <<>>, << <<MacAddress(<<"0", "2">>, <<"4", "2">>)>> >> }

InitGen ==
    /\ pid \in { NumberToString(p, 36) : p \in ProcessPids }
    /\ netInterfaces \in GeneratorHosts
    /\ mac = ScanInterfaces(netInterfaces, 1)
    /\ initPc = "done"
    /\ lastTime = 0
    /\ autoIDGenerators = EmptyRegistry
    /\ ret = NoCall
    /\ issued = <<>>
    /\ lastID = [k \in Keys |-> -1]
    /\ justReset = {}
    /\ pending = 0
    /\ settled = 0

(***************************************************************************)
(* iterate, index.ts:274-290: a generator.  itPc is where it is suspended: *)
(* "start" before the first next(), "loop" at the yield inside a for loop, *)
(* "done" after its return or throw.  A next() runs it to the next yield   *)
(* or to its end.                                                          *)
(***************************************************************************)
\* the key of a {key, value} pair: the index of an array, the name of an entry
PairKey(input, i) ==
    IF IsArray(input)
    THEN [type |-> "number", num |-> i - 1, str |-> ""]
    ELSE [type |-> "string", num |-> 0, str |-> input.e[i].k]

\* { key, value } of the element or entry at position i (1-based here)
Pair(input, i) == [key |-> PairKey(input, i), value |-> input.e[i].v]

\* what next() hands back: { value, done }, or the error raised
NoResult == [done |-> FALSE, raised |-> FALSE, hasPair |-> FALSE,
             pair |-> [key |-> [type |-> "undefined", num |-> 0, str |-> ""],
                       value |-> Undefined]]

\* index < length - 1 at the loop test with the given value of index
LoopTest(input, index) == index < Len(input.e) - 1

\* the return statement after the loop, index.ts:279-280 and 287-289
IterReturn(input) ==
    LET lastIndex == Len(input.e) - 1 IN
    IF IsArray(input)
    THEN \* input[-1] is undefined
         [NoResult EXCEPT !.done = TRUE, !.hasPair = TRUE,
            !.pair = IF lastIndex >= 0 THEN Pair(input, lastIndex + 1)
                     ELSE [key |-> [type |-> "number", num |-> -1, str |-> ""],
                           value |-> Undefined]]
    ELSE IF lastIndex >= 0
    THEN [NoResult EXCEPT !.done = TRUE, !.hasPair = TRUE,
            !.pair = Pair(input, lastIndex + 1)]
    ELSE \* const [key, value] = undefined: TypeError
         [NoResult EXCEPT !.done = TRUE, !.raised = TRUE]

IterateNext ==
    /\ itPc \in {"start", "loop"}
    /\ LET index == IF itPc = "start" THEN 0 ELSE itIndex + 1 IN
         IF LoopTest(itInput, index)
         THEN /\ itPc' = "loop"
              /\ itIndex' = index
              /\ itResult' = [NoResult EXCEPT !.hasPair = TRUE,
                                !.pair = Pair(itInput, index + 1)]
              /\ itYielded' = Append(itYielded, Pair(itInput, index + 1))
         ELSE /\ itPc' = "done"
              /\ itIndex' = index
              /\ itResult' = IterReturn(itInput)
              /\ UNCHANGED itYielded
    /\ UNCHANGED itInput

\* next() on the finished generator: { value: undefined, done: true }
IterateNextFinished ==
    /\ itPc = "done"
    /\ itResult' = [NoResult EXCEPT !.done = TRUE]
    /\ UNCHANGED <<itInput, itPc, itIndex, itYielded>>

IterateValues == { Undefined, Num(0), Str(<<"x">>) }
IterateNames  == { "a", "b", "c" }

IterateArrays ==
    { Arr(elems) : elems \in UNION { SeqsOfLen(IterateValues, n) : n \in 0 .. MaxLen } }

\* plain objects: entries with distinct names, in insertion order
IterateObjects ==
    { Obj([i \in 1 .. Len(ks) |-> [k |-> ks[i], v |-> vs[i]]]) :
        <<ks, vs>> \in
          UNION { { ks \in SeqsOfLen(IterateNames, n) :
                      \A i, j \in 1 .. n : i # j => ks[i] # ks[j] }
                    \X SeqsOfLen(IterateValues, n) : n \in 0 .. MaxLen } }

(***************************************************************************)
(* isValid, index.ts:247-252, and trimObject, index.ts:194-206.            *)
(***************************************************************************)
\* the characters String.prototype.trim removes, among those of the model
WhiteSpace == { " ", "\t", "\n" }

RECURSIVE TrimStart(_)
TrimStart(chars) ==
    IF chars # <<>> /\ Head(chars) \in WhiteSpace THEN TrimStart(Tail(chars))
    ELSE chars

RECURSIVE TrimEnd(_)
TrimEnd(chars) ==
    IF chars # <<>> /\ chars[Len(chars)] \in WhiteSpace
    THEN TrimEnd(SubSeq(chars, 1, Len(chars) - 1))
    ELSE chars

\* value.trim()
StringTrim(chars) == TrimEnd(TrimStart(chars))

isValid(value) ==
    IF value.t \in {"undefined", "null"} THEN FALSE
    ELSE IF TypeOf(value) = "string" THEN ~(StringTrim(value.s) = <<>>)
    ELSE IF TypeOf(value) = "number" /\ value.nan THEN FALSE
    ELSE TRUE

\* typeof value === 'object' && !Array.isArray(value), index.ts:201
Recurses(value) == TypeOf(value) = "object" /\ ~IsArray(value)

\* the loop of index.ts:197-204 from position index on: the entries it adds
\* to newObj, in the order of Object.keys(obj)
RECURSIVE TrimEntries(_, _)
TrimEntries(entries, index) ==
    IF index > Len(entries) THEN <<>>
    ELSE LET key   == entries[index].k
             value == entries[index].v
             kept  == IF isValid(value)
                      THEN <<[k |-> key,
                              v |-> IF Recurses(value)
                                    THEN Obj(TrimEntries(value.e, 1))
                                    ELSE value]>>
                      ELSE <<>>
         IN  kept \o TrimEntries(entries, index + 1)

trimObject(obj) == Obj(TrimEntries(obj.e, 1))

TrimCall ==
    /\ trimOut = Undefined
    /\ trimOut' = trimObject(trimIn)
    /\ UNCHANGED trimIn

(***************************************************************************)
(* The arguments of trimObject: plain objects with up to two entries,      *)
(* nested to MaxDepth.                                                     *)
(***************************************************************************)
TrimLeaves ==
    { Undefined, Null, NaN, Str(<<>>), Str(<<" ", "\t">>), Str(<<" ", "x", " ">>),
      Bool(FALSE), Num(0), Arr(<<>>), Arr(<<Null, Str(<<>>)>>), DateObject }

\* plain objects over the values: {}, {a: v}, {b: v}
SmallObjects(values) ==
    {Obj(<<>>)} \cup { Obj(<<[k |-> name, v |-> v]>>) : name \in {"a", "b"}, v \in values }

RECURSIVE TrimValues(_)
TrimValues(depth) ==
    IF depth = 0 THEN TrimLeaves
    ELSE TrimLeaves \cup SmallObjects(TrimValues(depth - 1))

TrimInputs ==
    SmallObjects(TrimValues(MaxDepth - 1))
      \cup { Obj(<<[k |-> "a", v |-> v], [k |-> "b", v |-> w]>>) :
               v \in TrimValues(MaxDepth - 1), w \in TrimLeaves }

(***************************************************************************)
(* pickKeys, index.ts:214-221, and removeKeys, index.ts:229-239.  The      *)
(* elements of keys are property names of obj (K extends keyof T): strings *)
(* or integers.                                                            *)
(***************************************************************************)
KeyString(s) == [type |-> "string", num |-> 0, str |-> s]
KeyNumber(n) == [type |-> "number", num |-> n, str |-> ""]

\* Object.keys(obj): the own enumerable property names, in enumeration order
ObjectKeys(obj) == [i \in 1 .. Len(obj.e) |-> obj.e[i].k]

HasOwn(entries, key) == \E i \in 1 .. Len(entries) : entries[i].k = key

\* obj[key]: the own property, else the one inherited from Object.prototype
\* (a function for the names used here), else undefined
Get(obj, key) ==
    IF HasOwn(obj.e, key)
    THEN obj.e[CHOOSE i \in 1 .. Len(obj.e) : obj.e[i].k = key].v
    ELSE IF key \in ObjectPrototypeKeys THEN Value("function")
    ELSE Undefined

\* integer-like property names enumerate first, in ascending order
IndexNames == { NumberToString(i, 10) : i \in 0 .. 9 }
IndexValue(key) == CHOOSE i \in 0 .. 9 : NumberToString(i, 10) = key

\* newObj[key] = value on an object literal: replaces the value of an own
\* property or creates the property; '__proto__' is the prototype setter and
\* creates nothing
Put(entries, key, value) ==
    IF key = "__proto__" THEN entries
    ELSE IF HasOwn(entries, key)
    THEN [i \in 1 .. Len(entries) |->
            IF entries[i].k = key THEN [k |-> key, v |-> value] ELSE entries[i]]
    ELSE IF key \in IndexNames
    THEN LET before == Cardinality({ i \in 1 .. Len(entries) :
                          /\ entries[i].k \in IndexNames
                          /\ IndexValue(entries[i].k) < IndexValue(key) })
         IN SubSeq(entries, 1, before) \o <<[k |-> key, v |-> value]>>
              \o SubSeq(entries, before + 1, Len(entries))
    ELSE Append(entries, [k |-> key, v |-> value])

\* the loop of pickKeys from the given value of index (0-based as in the code)
RECURSIVE PickLoop(_, _, _, _)
PickLoop(obj, keys, index, newObj) ==
    IF index < Len(keys)
    THEN LET key == ToPropertyKey(keys[index + 1])
         IN PickLoop(obj, keys, index + 1, Put(newObj, key, Get(obj, key)))
    ELSE newObj

pickKeys(obj, keys) == Obj(PickLoop(obj, keys, 0, <<>>))

\* keys.includes(key) for a name that Object.keys returned: a string, compared
\* with each element without conversion
Includes(keys, key) == \E i \in 1 .. Len(keys) : keys[i] = KeyString(key)

RECURSIVE RemoveLoop(_, _, _, _)
RemoveLoop(obj, keys, index, newObj) ==
    LET allKeys == ObjectKeys(obj) IN
    IF index < Len(allKeys)
    THEN LET key == allKeys[index + 1]
         IN RemoveLoop(obj, keys, index + 1,
                       IF ~Includes(keys, key)
                       THEN Put(newObj, key, Get(obj, key))
                       ELSE newObj)
    ELSE newObj

removeKeys(obj, keys) == Obj(RemoveLoop(obj, keys, 0, <<>>))

pickKeysCall ==
    /\ keysOp = "none"
    /\ keysOp' = "pickKeys"
    /\ keysOut' = pickKeys(keysObj, keysArg)
    /\ UNCHANGED <<keysObj, keysArg>>

removeKeysCall ==
    /\ keysOp = "none"
    /\ keysOp' = "removeKeys"
    /\ keysOut' = removeKeys(keysObj, keysArg)
    /\ UNCHANGED <<keysObj, keysArg>>

\* objects with the properties 1, a and b or some of them, in enumeration order
KeyObjectValues == { Num(0), Undefined }
KeyObjectShapes ==
    { <<>>, <<"1">>, <<"a">>, <<"b">>, <<"1", "a">>, <<"1", "b">>, <<"a", "b">>,
      <<"b", "a">>, <<"1", "a", "b">>, <<"1", "b", "a">> }
KeyObjects ==
    UNION { { Obj([i \in 1 .. Len(ks) |-> [k |-> ks[i], v |-> vs[i]]]) :
                vs \in SeqsOfLen(KeyObjectValues, Len(ks)) } : ks \in KeyObjectShapes }

\* key lists: names the object may have (a, b, 1 as an integer or a string) and
\* one it never has (c)
KeyElements ==
    { KeyString("a"), KeyString("b"), KeyString("c"), KeyString("1"), KeyNumber(1) }
KeyLists == UNION { SeqsOfLen(KeyElements, n) : n \in 0 .. MaxKeys }

(***************************************************************************)
(* isValidObject, index.ts:260-266, and the calls of isValid and           *)
(* isValidObject on one value.                                             *)
(***************************************************************************)
isValidObject(obj) ==
    LET valid == isValid(obj) IN
    IF valid = FALSE THEN FALSE
    ELSE IF IsArray(obj) THEN Len(obj.e) > 0
    ELSE IF TypeOf(obj) = "object" THEN Len(ObjectKeys(obj)) > 0
    ELSE TRUE

isValidCall ==
    /\ validOp = "none"
    /\ validOp' = "isValid"
    /\ validOut' = isValid(validIn)
    /\ UNCHANGED validIn

isValidObjectCall ==
    /\ validOp = "none"
    /\ validOp' = "isValidObject"
    /\ validOut' = isValidObject(validIn)
    /\ UNCHANGED validIn

\* the values given to isValid and isValidObject: every kind of value, strings
\* of blanks and other characters, arrays and objects with few members
ValidStrings ==
    { Str(chars) : chars \in UNION { SeqsOfLen({"x", " ", "\t"}, n) : n \in 0 .. MaxSize } }
ValidMembers == { Undefined, Num(0), Str(<<>>) }
ValidArrays ==
    { Arr(elems) : elems \in UNION { SeqsOfLen(ValidMembers, n) : n \in 0 .. MaxSize } }
ValidObjects ==
    { Obj([i \in 1 .. Len(vs) |-> [k |-> <<"a", "b", "c", "d">>[i], v |-> vs[i]]]) :
        vs \in UNION { SeqsOfLen(ValidMembers, n) : n \in 0 .. MaxSize } }
ValidInputs ==
    { Undefined, Null, Bool(TRUE), Bool(FALSE), Num(0), Num(1), NaN, DateObject }
      \cup ValidStrings \cup ValidArrays \cup ValidObjects

(***************************************************************************)
(* encode, index.ts:141-144, and decode, index.ts:153-156.  A string is a  *)
(* sequence of UTF-16 code units and a Buffer a sequence of bytes, both    *)
(* given by their numbers; the property names of the objects encoded are   *)
(* such sequences too.                                                     *)
(***************************************************************************)
NullText  == <<110, 117, 108, 108>>        \* null
TrueText  == <<116, 114, 117, 101>>        \* true
FalseText == <<102, 97, 108, 115, 101>>    \* false

RECURSIVE DecimalText(_)
DecimalText(n) ==
    IF n < 10 THEN <<48 + n>> ELSE DecimalText(n \div 10) \o <<48 + (n % 10)>>

\* a string between double quotes (the strings of the model hold no character
\* that JSON escapes)
QuoteText(chars) == <<34>> \o chars \o <<34>>

\* JSON.stringify(data) for null, booleans, non-negative integers, strings,
\* arrays and plain objects
RECURSIVE JSONStringify(_)
RECURSIVE JoinMembers(_, _, _)
JSONStringify(v) ==
    CASE v.t = "null"    -> NullText
      [] v.t = "boolean" -> IF v.n = 1 THEN TrueText ELSE FalseText
      [] v.t = "number"  -> DecimalText(v.n)
      [] v.t = "string"  -> QuoteText(v.s)
      [] v.t = "array"   -> <<91>> \o JoinMembers(v.e, 1, FALSE) \o <<93>>
      [] v.t = "plain"   -> <<123>> \o JoinMembers(v.e, 1, TRUE) \o <<125>>

JoinMembers(es, i, named) ==
    IF i > Len(es) THEN <<>>
    ELSE (IF i > 1 THEN <<44>> ELSE <<>>)
           \o (IF named THEN QuoteText(es[i].k) \o <<58>> ELSE <<>>)
           \o JSONStringify(es[i].v)
           \o JoinMembers(es, i + 1, named)

\* the result of a parse step: whether it succeeded, the value, and the
\* position after it
ParseFail == [ok |-> FALSE, v |-> Undefined, next |-> 0]
Parsed(v, next) == [ok |-> TRUE, v |-> v, next |-> next]

StartsWith(text, i, word) ==
    /\ i + Len(word) - 1 <= Len(text)
    /\ SubSeq(text, i, i + Len(word) - 1) = word

IsDigit(c) == c >= 48 /\ c <= 57

\* the position after the digits that start at i
RECURSIVE DigitsEnd(_, _)
DigitsEnd(text, i) ==
    IF i <= Len(text) /\ IsDigit(text[i]) THEN DigitsEnd(text, i + 1) ELSE i

RECURSIVE DecimalValue(_)
DecimalValue(ds) ==
    IF ds = <<>> THEN 0
    ELSE 10 * DecimalValue(SubSeq(ds, 1, Len(ds) - 1)) + (ds[Len(ds)] - 48)

\* the position of the closing quote of the string whose characters start at
\* i, or 0 when there is none (a control character or a backslash, which the
\* texts of the model never hold, ends the search as well)
RECURSIVE StringEnd(_, _)
StringEnd(text, i) ==
    IF i > Len(text) THEN 0
    ELSE IF text[i] = 34 THEN i
    ELSE IF text[i] < 32 \/ text[i] = 92 THEN 0
    ELSE StringEnd(text, i + 1)

\* a member read into the object under construction: a name read twice keeps
\* its place and takes the later value
PutMember(entries, name, value) ==
    IF HasOwn(entries, name)
    THEN [i \in 1 .. Len(entries) |->
            IF entries[i].k = name THEN [k |-> name, v |-> value] ELSE entries[i]]
    ELSE Append(entries, [k |-> name, v |-> value])

\* JSON.parse, by recursive descent over the text from position i
RECURSIVE ParseValue(_, _)
RECURSIVE ParseElements(_, _, _)
RECURSIVE ParseMembers(_, _, _)
ParseValue(text, i) ==
    IF i > Len(text) THEN ParseFail
    ELSE IF StartsWith(text, i, NullText) THEN Parsed(Null, i + 4)
    ELSE IF StartsWith(text, i, TrueText) THEN Parsed(Bool(TRUE), i + 4)
    ELSE IF StartsWith(text, i, FalseText) THEN Parsed(Bool(FALSE), i + 5)
    ELSE IF IsDigit(text[i])
    THEN \* a number starting with 0 is 0 alone
         LET end == IF text[i] = 48 THEN i + 1 ELSE DigitsEnd(text, i)
         IN Parsed(Num(DecimalValue(SubSeq(text, i, end - 1))), end)
    ELSE IF text[i] = 34
    THEN LET close == StringEnd(text, i + 1)
         IN IF close = 0 THEN ParseFail
            ELSE Parsed(Str(SubSeq(text, i + 1, close - 1)), close + 1)
    ELSE IF text[i] = 91
    THEN IF i + 1 <= Len(text) /\ text[i + 1] = 93
         THEN Parsed(Arr(<<>>), i + 2)
         ELSE ParseElements(text, i + 1, <<>>)
    ELSE IF text[i] = 123
    THEN IF i + 1 <= Len(text) /\ text[i + 1] = 125
         THEN Parsed(Obj(<<>>), i + 2)
         ELSE ParseMembers(text, i + 1, <<>>)
    ELSE ParseFail

\* value (, value)* ]
ParseElements(text, i, elems) ==
    LET r == ParseValue(text, i) IN
    IF ~r.ok \/ r.next > Len(text) THEN ParseFail
    ELSE IF text[r.next] = 93 THEN Parsed(Arr(Append(elems, r.v)), r.next + 1)
    ELSE IF text[r.next] = 44 THEN ParseElements(text, r.next + 1, Append(elems, r.v))
    ELSE ParseFail

\* "name": value (, "name": value)* }
ParseMembers(text, i, entries) ==
    IF i > Len(text) \/ text[i] # 34 THEN ParseFail
    ELSE LET close == StringEnd(text, i + 1) IN
         IF close = 0 \/ close + 1 > Len(text) \/ text[close + 1] # 58 THEN ParseFail
         ELSE LET r == ParseValue(text, close + 2)
                  es == PutMember(entries, SubSeq(text, i + 1, close - 1), r.v)
              IN IF ~r.ok \/ r.next > Len(text) THEN ParseFail
                 ELSE IF text[r.next] = 125 THEN Parsed(Obj(es), r.next + 1)
                 ELSE IF text[r.next] = 44 THEN ParseMembers(text, r.next + 1, es)
                 ELSE ParseFail

\* JSON.parse(text): the value, or a SyntaxError
JSONParse(text) ==
    LET r == ParseValue(text, 1) IN
    IF r.ok /\ r.next = Len(text) + 1
    THEN [raised |-> FALSE, value |-> r.v]
    ELSE [raised |-> TRUE, value |-> Undefined]

\* the UTF-8 bytes of a code unit (the strings of the model hold no surrogates)
Utf8Bytes(cu) ==
    IF cu < 128 THEN <<cu>>
    ELSE IF cu < 2048 THEN <<192 + (cu \div 64), 128 + (cu % 64)>>
    ELSE <<224 + (cu \div 4096), 128 + ((cu \div 64) % 64), 128 + (cu % 64)>>

RECURSIVE Utf8Encode(_)
Utf8Encode(text) ==
    IF text = <<>> THEN <<>> ELSE Utf8Bytes(Head(text)) \o Utf8Encode(Tail(text))

IsContinuation(b) == b >= 128 /\ b < 192

\* bytes read as UTF-8; a byte that starts no well-formed sequence reads as
\* U+FFFD
RECURSIVE Utf8Decode(_)
Utf8Decode(bytes) ==
    IF bytes = <<>> THEN <<>>
    ELSE LET b == Head(bytes)
             n == Len(bytes)
         IN IF b < 128 THEN <<b>> \o Utf8Decode(Tail(bytes))
            ELSE IF b >= 194 /\ b < 224 /\ n >= 2 /\ IsContinuation(bytes[2])
            THEN <<(b - 192) * 64 + (bytes[2] - 128)>>
                   \o Utf8Decode(SubSeq(bytes, 3, n))
            ELSE IF /\ b >= 224 /\ b < 240 /\ n >= 3
                    /\ IsContinuation(bytes[2]) /\ IsContinuation(bytes[3])
            THEN <<(b - 224) * 4096 + (bytes[2] - 128) * 64 + (bytes[3] - 128)>>
                   \o Utf8Decode(SubSeq(bytes, 4, n))
            ELSE <<65533>> \o Utf8Decode(Tail(bytes))

HexDigit(d) == IF d < 10 THEN 48 + d ELSE 87 + d
HexValue(c) ==
    IF c >= 48 /\ c <= 57 THEN c - 48
    ELSE IF c >= 97 /\ c <= 102 THEN c - 87
    ELSE IF c >= 65 /\ c <= 70 THEN c - 55
    ELSE -1

RECURSIVE HexSlice(_)
HexSlice(bytes) ==
    IF bytes = <<>> THEN <<>>
    ELSE <<HexDigit(Head(bytes) \div 16), HexDigit(Head(bytes) % 16)>>
           \o HexSlice(Tail(bytes))

\* pairs of hex digits up to the first pair that is not one
RECURSIVE HexWrite(_)
HexWrite(text) ==
    IF Len(text) < 2 \/ HexValue(text[1]) < 0 \/ HexValue(text[2]) < 0 THEN <<>>
    ELSE <<HexValue(text[1]) * 16 + HexValue(text[2])>>
           \o HexWrite(SubSeq(text, 3, Len(text)))

\* the character of a 6-bit value in the base64 or the base64url alphabet
Base64Char(i, url) ==
    IF i < 26 THEN 65 + i
    ELSE IF i < 52 THEN 97 + (i - 26)
    ELSE IF i < 62 THEN 48 + (i - 52)
    ELSE IF i = 62 THEN (IF url THEN 45 ELSE 43)
    ELSE (IF url THEN 95 ELSE 47)

\* the 6-bit value of a character of either alphabet, -1 for any other
Base64Value(c) ==
    IF c >= 65 /\ c <= 90 THEN c - 65
    ELSE IF c >= 97 /\ c <= 122 THEN c - 97 + 26
    ELSE IF c >= 48 /\ c <= 57 THEN c - 48 + 52
    ELSE IF c = 43 \/ c = 45 THEN 62
    ELSE IF c = 47 \/ c = 95 THEN 63
    ELSE -1

RECURSIVE Base64Slice(_, _)
Base64Slice(bytes, url) ==
    LET n == Len(bytes)
        pad == IF url THEN <<>> ELSE <<61>>
    IN IF n = 0 THEN <<>>
       ELSE IF n = 1
       THEN <<Base64Char(bytes[1] \div 4, url), Base64Char((bytes[1] % 4) * 16, url)>>
              \o pad \o pad
       ELSE IF n = 2
       THEN <<Base64Char(bytes[1] \div 4, url),
              Base64Char((bytes[1] % 4) * 16 + (bytes[2] \div 16), url),
              Base64Char((bytes[2] % 16) * 4, url)>> \o pad
       ELSE <<Base64Char(bytes[1] \div 4, url),
              Base64Char((bytes[1] % 4) * 16 + (bytes[2] \div 16), url),
              Base64Char((bytes[2] % 16) * 4 + (bytes[3] \div 64), url),
              Base64Char(bytes[3] % 64, url)>>
              \o Base64Slice(SubSeq(bytes, 4, n), url)

\* the 6-bit values of the characters before the first '=', characters of
\* neither alphabet skipped
RECURSIVE Sextets(_)
Sextets(text) ==
    IF text = <<>> \/ Head(text) = 61 THEN <<>>
    ELSE IF Base64Value(Head(text)) < 0 THEN Sextets(Tail(text))
    ELSE <<Base64Value(Head(text))>> \o Sextets(Tail(text))

RECURSIVE SextetBytes(_)
SextetBytes(q) ==
    LET n == Len(q) IN
    IF n < 2 THEN <<>>
    ELSE IF n = 2 THEN <<q[1] * 4 + (q[2] \div 16)>>
    ELSE IF n = 3 THEN <<q[1] * 4 + (q[2] \div 16), (q[2] % 16) * 16 + (q[3] \div 4)>>
    ELSE <<q[1] * 4 + (q[2] \div 16), (q[2] % 16) * 16 + (q[3] \div 4),
           (q[3] % 4) * 64 + q[4]>> \o SextetBytes(SubSeq(q, 5, n))

Base64Write(text) == SextetBytes(Sextets(text))

\* pairs of bytes as code units, low byte first; an odd last byte is left out
RECURSIVE Ucs2Slice(_)
Ucs2Slice(bytes) ==
    IF Len(bytes) < 2 THEN <<>>
    ELSE <<bytes[1] + 256 * bytes[2]>> \o Ucs2Slice(SubSeq(bytes, 3, Len(bytes)))

RECURSIVE Ucs2Write(_)
Ucs2Write(text) ==
    IF text = <<>> THEN <<>>
    ELSE <<Head(text) % 256, Head(text) \div 256>> \o Ucs2Write(Tail(text))

\* BufferEncoding, aliases left out ('utf-8', 'binary', 'ucs2', 'ucs-2')
Encodings == { "hex", "base64", "base64url", "utf8", "latin1", "ascii", "utf16le" }

\* buf.toString(encoding)
BufferToString(bytes, encoding) ==
    CASE encoding = "hex"       -> HexSlice(bytes)
      [] encoding = "base64"    -> Base64Slice(bytes, FALSE)
      [] encoding = "base64url" -> Base64Slice(bytes, TRUE)
      [] encoding = "utf8"      -> Utf8Decode(bytes)
      [] encoding = "latin1"    -> bytes
      [] encoding = "ascii"     -> [i \in 1 .. Len(bytes) |-> bytes[i] % 128]
      [] encoding = "utf16le"   -> Ucs2Slice(bytes)

\* Buffer.from(str, encoding); 'ascii' writes as 'latin1' does
BufferFrom(text, encoding) ==
    CASE encoding = "hex"       -> HexWrite(text)
      [] encoding = "base64"    -> Base64Write(text)
      [] encoding = "base64url" -> Base64Write(text)
      [] encoding = "utf8"      -> Utf8Encode(text)
      [] encoding = "latin1"    -> [i \in 1 .. Len(text) |-> text[i] % 256]
      [] encoding = "ascii"     -> [i \in 1 .. Len(text) |-> text[i] % 256]
      [] encoding = "utf16le"   -> Ucs2Write(text)

encode(data, encoding) ==
    LET str == JSONStringify(data)
    IN BufferToString(BufferFrom(str, "utf8"), encoding)

decode(str, encoding) ==
    LET data == BufferFrom(str, encoding)
    IN JSONParse(BufferToString(data, "utf8"))

NoDecoded == [raised |-> FALSE, value |-> Undefined]

encodeCall ==
    /\ encPc = "start"
    /\ encPc' = "encoded"
    /\ encStr' = encode(encData, encEncoding)
    /\ UNCHANGED <<encData, encEncoding, encOut>>

\* decode applied to what encode returned, with the same encoding
decodeCall ==
    /\ encPc = "encoded"
    /\ encPc' = "decoded"
    /\ encOut' = decode(encStr, encEncoding)
    /\ UNCHANGED <<encData, encEncoding, encStr>>

\* JSON-serializable values: strings of a (97) and e-acute (233), small
\* numbers, arrays and objects of them
EncodeStrings ==
    { Str(chars) : chars \in UNION { SeqsOfLen({97, 233}, n) : n \in 0 .. MaxSize } }
EncodeLeaves ==
    { Null, Bool(TRUE), Bool(FALSE), Num(0), Num(7), Num(10), Num(100) } \cup EncodeStrings
EncodeMembers == { Null, Num(7), Str(<<97>>), Arr(<<>>) }
EncodeArrays ==
    { Arr(elems) : elems \in UNION { SeqsOfLen(EncodeMembers, n) : n \in 0 .. MaxSize } }
EncodeObjects ==
    { Obj([i \in 1 .. Len(vs) |-> [k |-> <<<<97>>, <<233>>, <<97, 97>>, <<98>>>>[i], v |-> vs[i]]]) :
        vs \in UNION { SeqsOfLen(EncodeMembers, n) : n \in 0 .. MaxSize } }
EncodeInputs == EncodeLeaves \cup EncodeArrays \cup EncodeObjects

(***************************************************************************)
(* The specifications: the identifier generator of a process (Spec), one   *)
(* the same next to hash and compareHash operations (SpecAsync), the       *)
(* module body followed by genUID calls (SpecInit), one                    *)
(* generator made by iterate (SpecIterate), one call of trimObject         *)
(* (SpecTrim), one call of pickKeys or removeKeys (SpecKeys), one call of  *)
(* isValid or isValidObject (SpecValid), encode followed by decode         *)
(* (SpecEncode).  The state a specification does not use stays as it is    *)
(* after module initialisation.                                            *)
(***************************************************************************)
IdleGen ==
    /\ pid = NumberToString(47, 36)
    /\ mac = ""
    /\ netInterfaces = <<>>
    /\ initPc = "done"
    /\ lastTime = 0
    /\ autoIDGenerators = EmptyRegistry
    /\ ret = NoCall
    /\ issued = <<>>
    /\ lastID = [k \in Keys |-> -1]
    /\ justReset = {}
    /\ pending = 0
    /\ settled = 0

IdleIter ==
    /\ itInput = Undefined
    /\ itPc = "none"
    /\ itIndex = 0
    /\ itYielded = <<>>
    /\ itResult = NoResult

IdleTrim ==
    /\ trimIn = Undefined
    /\ trimOut = Undefined

IdleKeys ==
    /\ keysObj = Undefined
    /\ keysArg = <<>>
    /\ keysOp = "none"
    /\ keysOut = Undefined

IdleValid ==
    /\ validIn = Undefined
    /\ validOp = "none"
    /\ validOut = FALSE

IdleEncode ==
    /\ encData = Undefined
    /\ encEncoding = "base64"
    /\ encPc = "none"
    /\ encStr = <<>>
    /\ encOut = NoDecoded

Init == InitGen /\ IdleIter /\ IdleTrim /\ IdleKeys /\ IdleValid /\ IdleEncode

Next ==
    \/ \E a \in Affixes : genUID(a[1], a[2]) /\ UNCHANGED <<iterVars, trimVars, keysVars, validVars, encVars>>
    \/ \E ns \in Namespaces : genAutoID(ns) /\ UNCHANGED <<iterVars, trimVars, keysVars, validVars, encVars>>
    \/ \E ns \in Namespaces : resetAutoID(ns) /\ UNCHANGED <<iterVars, trimVars, keysVars, validVars, encVars>>

Spec == Init /\ [][Next]_vars

NextAsync ==
    LET others == <<iterVars, trimVars, keysVars, validVars, encVars>> IN
    \/ genUID("", "") /\ UNCHANGED others
    \/ \E ns \in AsyncNamespaces : genAutoID(ns) /\ UNCHANGED others
    \/ \E ns \in AsyncNamespaces : resetAutoID(ns) /\ UNCHANGED others
    \/ hash /\ UNCHANGED others
    \/ compareHash /\ UNCHANGED others
    \/ bcryptSettle /\ UNCHANGED others

SpecAsync == Init /\ [][NextAsync]_vars

\* the process starts: the declarations of index.ts:20-23 have run
InitStart ==
    /\ pid \in { NumberToString(p, 36) : p \in ProcessPids }
    /\ mac = ""
    /\ netInterfaces \in Hosts
    /\ initPc = "start"
    /\ lastTime = 0
    /\ autoIDGenerators = EmptyRegistry
    /\ ret = NoCall
    /\ issued = <<>>
    /\ lastID = [k \in Keys |-> -1]
    /\ justReset = {}
    /\ pending = 0
    /\ settled = 0
    /\ IdleIter /\ IdleTrim /\ IdleKeys /\ IdleValid /\ IdleEncode

NextInit ==
    LET others == <<iterVars, trimVars, keysVars, validVars, encVars>> IN
    \/ moduleInit /\ UNCHANGED others
    \/ initPc = "done" /\ genUID("", "") /\ UNCHANGED others

SpecInit == InitStart /\ [][NextInit]_vars

\* const it = iterate(input)
InitIterate ==
    /\ itInput \in IterateArrays \cup IterateObjects
    /\ itPc = "start"
    /\ itIndex = 0
    /\ itYielded = <<>>
    /\ itResult = NoResult
    /\ IdleGen /\ IdleTrim /\ IdleKeys /\ IdleValid /\ IdleEncode

NextIterate ==
    \/ IterateNext /\ UNCHANGED <<genVars, trimVars, keysVars, validVars, encVars>>
    \/ IterateNextFinished /\ UNCHANGED <<genVars, trimVars, keysVars, validVars, encVars>>

SpecIterate == InitIterate /\ [][NextIterate]_vars

InitTrim ==
    /\ trimIn \in TrimInputs
    /\ trimOut = Undefined
    /\ IdleGen /\ IdleIter /\ IdleKeys /\ IdleValid /\ IdleEncode

NextTrim == TrimCall /\ UNCHANGED <<genVars, iterVars, keysVars, validVars, encVars>>

SpecTrim == InitTrim /\ [][NextTrim]_vars

InitKeys ==
    /\ keysObj \in KeyObjects
    /\ keysArg \in KeyLists
    /\ keysOp = "none"
    /\ keysOut = Undefined
    /\ IdleGen /\ IdleIter /\ IdleTrim /\ IdleValid /\ IdleEncode

NextKeys ==
    \/ pickKeysCall /\ UNCHANGED <<genVars, iterVars, trimVars, validVars, encVars>>
    \/ removeKeysCall /\ UNCHANGED <<genVars, iterVars, trimVars, validVars, encVars>>

SpecKeys == InitKeys /\ [][NextKeys]_vars

InitValid ==
    /\ validIn \in ValidInputs
    /\ validOp = "none"
    /\ validOut = FALSE
    /\ IdleGen /\ IdleIter /\ IdleTrim /\ IdleKeys /\ IdleEncode

NextValid ==
    \/ isValidCall /\ UNCHANGED <<genVars, iterVars, trimVars, keysVars, encVars>>
    \/ isValidObjectCall /\ UNCHANGED <<genVars, iterVars, trimVars, keysVars, encVars>>

SpecValid == InitValid /\ [][NextValid]_vars

InitEncode ==
    /\ encData \in EncodeInputs
    /\ encEncoding \in Encodings
    /\ encPc = "start"
    /\ encStr = <<>>
    /\ encOut = NoDecoded
    /\ IdleGen /\ IdleIter /\ IdleTrim /\ IdleKeys /\ IdleValid

NextEncode ==
    \/ encodeCall /\ UNCHANGED <<genVars, iterVars, trimVars, keysVars, validVars>>
    \/ decodeCall /\ UNCHANGED <<genVars, iterVars, trimVars, keysVars, validVars>>

SpecEncode == InitEncode /\ [][NextEncode]_vars

(***************************************************************************)
(* The identifier generator's properties.                                  *)
(***************************************************************************)

\* C1: the timestamp value used by each genUID call is strictly greater than
\* the timestamp value used by every earlier call, whatever the wall clock
\* reads (advancing, stalled, or moving backwards).
C1_TimestampsStrictlyIncrease ==
    \A i, j \in 1 .. Len(issued) : i < j => issued[i].time < issued[j].time

\* a later call whose wall-clock reading lies before the timestamp already used
C1_Witness ==
    /\ Len(issued) >= 2
    /\ ret.op = "genUID"
    /\ ret.now < issued[Len(issued) - 1].time

\* C2: no two genUID calls of a process return the same core
\* mac + pid + base36(timestamp), whatever prefix and suffix they are given;
\* two consecutive genUID() calls never return equal strings.
C2_CoresDistinct ==
    /\ \A i, j \in 1 .. Len(issued) : i < j => issued[i].core # issued[j].core
    /\ (ret.op = "genUID" /\ ret.prevPlain /\ ret.prefix = "" /\ ret.suffix = "")
         => ret.uid # ret.prevUid

\* genUID() directly after genUID(), the wall clock not having advanced
C2_Witness ==
    /\ Len(issued) >= 2
    /\ ret.op = "genUID" /\ ret.prevPlain /\ ret.prefix = "" /\ ret.suffix = ""
    /\ ret.now < ret.time
    /\ ret.uid = ret.core

\* C3: a genAutoID(ns) call returns the number of genAutoID(ns) calls made
\* since the last resetAutoID(ns): the first returns 0 and each later one the
\* previous value plus 1, for every namespace.
C3_CountsSinceReset ==
    ret.op = "genAutoID" => (~ret.raised /\ ret.value = ret.prevID + 1)

\* C4: after resetAutoID(ns) the next genAutoID(ns) call returns 0.
C4_ZeroAfterReset ==
    (ret.op = "genAutoID" /\ ret.afterReset) => (~ret.raised /\ ret.value = 0)

\* what the next genAutoID call on the namespace would raise or return
NextAutoID(reg, ns) ==
    LET out == AutoID(reg, NamespaceKey(ns))
    IN  [raised |-> out.raised, value |-> out.value]

\* C5 as stated: a genAutoID or resetAutoID call on one namespace key (a
\* string or an integer, '' by default) never changes the value the next
\* genAutoID call on a different namespace key returns.
C5_OtherKeysUntouched ==
    [][ret'.op \in {"genAutoID", "resetAutoID"} =>
         \A ns \in Namespaces :
            DefaultNamespace(ns) # DefaultNamespace(ret'.ns) =>
               NextAutoID(autoIDGenerators', ns) = NextAutoID(autoIDGenerators, ns)]_vars

\* C5 amended: a genAutoID or resetAutoID call on one namespace key never
\* changes the value the next genAutoID call returns on a namespace key whose
\* string form is different (an integer and the string of its digits are one
\* key); resetAutoID() resets only the counter of ''.
C5_OtherCountersUntouched ==
    [][ret'.op \in {"genAutoID", "resetAutoID"} =>
         \A ns \in Namespaces :
            NamespaceKey(ns) # ret'.key =>
               NextAutoID(autoIDGenerators', ns) = NextAutoID(autoIDGenerators, ns)]_vars

\* resetAutoID() has discarded the counter of '' while the counter of "1" has
\* handed out values
C5_Witness ==
    /\ ret.op = "resetAutoID" /\ ret.ns = NsUndefined /\ ret.hadCounter
    /\ "" \notin DOMAIN autoIDGenerators
    /\ "1" \in DOMAIN autoIDGenerators
    /\ autoIDGenerators["1"] >= 2

\* C6: genAutoID raises for no string or integer namespace key, the keys
\* every plain object inherits included, and returns an integer.
C6_GenAutoIDNeverRaises ==
    ret.op = "genAutoID" => (~ret.raised /\ ret.value >= 0)

\* C7: resetAutoID(ns) on a namespace that has no counter raises no error and
\* leaves the whole counter registry and lastTime unchanged.
C7_ResetWithoutCounterIsNoOp ==
    [][(ret'.op = "resetAutoID" /\ ~ret'.hadCounter) =>
         /\ ~ret'.raised
         /\ autoIDGenerators' = autoIDGenerators
         /\ lastTime' = lastTime]_vars

\* a reset of a namespace without counter, other counters and lastTime in use
C7_Witness ==
    /\ ret.op = "resetAutoID" /\ ~ret.hadCounter
    /\ DOMAIN autoIDGenerators # {}
    /\ lastTime > 0

(***************************************************************************)
(* The properties of iterate.                                              *)
(***************************************************************************)
\* the {key, value} pairs of the input, one per element or entry, in
\* enumeration order
AllPairs(input) == [i \in 1 .. Len(input.e) |-> Pair(input, i)]

\* C8: for an array or plain object with n elements or own entries, the
\* sequence iterate(input) produces consists of exactly the n {key, value}
\* pairs in enumeration order, so a traversal of it sees every pair, the
\* last one included.  Stated here for n >= 1; the inputs with n = 0 are
\* the case of C9.
C8_TraversalSeesEveryPair ==
    (itPc = "done" /\ Len(itInput.e) >= 1) =>
        (~itResult.raised /\ itYielded = AllPairs(itInput))

\* C9: for an empty array and for an empty plain object, running the sequence
\* to completion raises no error and produces no pair, neither yielded nor as
\* the final result.
C9_EmptyInputProducesNothing ==
    (itPc = "done" /\ Len(itInput.e) = 0) =>
        (~itResult.raised /\ ~itResult.hasPair /\ itYielded = <<>>)

(***************************************************************************)
(* The properties of trimObject.                                           *)
(***************************************************************************)
\* null, undefined, NaN, or an empty or whitespace-only string
Invalid(value) ==
    \/ value.t \in {"null", "undefined"}
    \/ value.t = "number" /\ value.nan
    \/ value.t = "string" /\ \A i \in 1 .. Len(value.s) : value.s[i] \in WhiteSpace

\* the entries of obj whose value is not invalid, a nested plain object
\* replaced by its own trimmed copy, every other value as it is
RECURSIVE Trimmed(_)
Trimmed(obj) ==
    LET keep == { i \in 1 .. Len(obj.e) : ~Invalid(obj.e[i].v) }
        \* the position in obj of the j-th kept entry
        at(j) == CHOOSE i \in keep : Cardinality({ h \in keep : h < i }) = j - 1
    IN  Obj([j \in 1 .. Cardinality(keep) |->
               [k |-> obj.e[at(j)].k,
                v |-> IF obj.e[at(j)].v.t = "plain" THEN Trimmed(obj.e[at(j)].v)
                      ELSE obj.e[at(j)].v]])

\* C10: trimObject(obj) returns a new object holding exactly the keys of obj
\* whose value is none of null, undefined, NaN or an empty or
\* whitespace-only string; a kept nested plain object is replaced by its own
\* trimmed copy, every other kept value is kept as it is, and obj is not
\* modified.
C10_TrimObject ==
    trimOut # Undefined => trimOut = Trimmed(trimIn)

\* lastTime as it was before the latest genUID call
LastTimeBefore ==
    IF Len(issued) <= 1 THEN 0 ELSE issued[Len(issued) - 1].time

\* C15: each timestamp request, starting from lastTime = 0, sets lastTime to
\* the wall-clock reading now and returns it if now > lastTime, and otherwise
\* sets lastTime to lastTime + 1 and returns that; so the first request of a
\* process returns exactly the wall-clock reading.
C15_TimestampRule ==
    ret.op = "genUID" =>
        /\ ret.time = IF ret.now > LastTimeBefore THEN ret.now ELSE LastTimeBefore + 1
        /\ lastTime = ret.time

\* C16: with hash and compareHash operations pending in the background and
\* completing at arbitrary points between calls, no two genUID calls use the
\* same timestamp, and no two genAutoID calls on one namespace return the same
\* value without a reset in between (each returns more than the one before).
C16_AtomicUnderBackgroundWork ==
    /\ \A i, j \in 1 .. Len(issued) : i # j => issued[i].time # issued[j].time
    /\ (ret.op = "genAutoID" /\ ~ret.raised /\ ~ret.afterReset)
         => ret.value > ret.prevID

\* two genUID calls in a row with a completion between them, the second made
\* while an operation is pending
C16_Witness ==
    /\ ret.op = "genUID" /\ ret.prevUid # ""
    /\ ret.settledAt > ret.prevSettledAt
    /\ ret.pendingAt >= 1

\* the integer denoted by the hexadecimal digits of a string, separators skipped
RECURSIVE HexNumber(_)
HexNumber(str) ==
    IF str = <<>> THEN 0
    ELSE LET c == str[Len(str)]
             rest == HexNumber(SubSeq(str, 1, Len(str) - 1))
         IN IF c = ":" THEN rest ELSE 16 * rest + DigitValue(c)

\* the hardware addresses of a host, in enumeration order
RECURSIVE AllAddresses(_)
AllAddresses(interfaces) ==
    IF interfaces = <<>> THEN <<>>
    ELSE Head(interfaces) \o AllAddresses(Tail(interfaces))

\* C17: the interface identity computed at process start is the base-36
\* rendering of the integer denoted by the hexadecimal digits of the first
\* hardware address, in enumeration order, that is not the all-zero address;
\* it is the empty string when there is none, and it never changes afterwards.
C17_InterfaceIdentity ==
    initPc = "done" =>
        LET candidates == SelectSeq(AllAddresses(netInterfaces),
                                    LAMBDA a : a # ZeroAddress)
        IN mac = IF candidates = <<>> THEN ""
                 ELSE NumberToString(HexNumber(candidates[1]), 36)

\* the string of the digits of an integer namespace
DigitString(ns) == NsString(NumberToString(ns.num, 10))

\* C18: an integer namespace and the string form of the same number address
\* one counter: after genAutoID(1) has returned k, genAutoID("1") returns
\* k + 1, and resetAutoID("1") makes the next genAutoID(1) return 0.
C18_IntegerAndStringShareCounter ==
    /\ (ret.op = "genAutoID" /\ ret.ns.type = "number" /\ ~ret.raised)
         => NextAutoID(autoIDGenerators, DigitString(ret.ns))
              = [raised |-> FALSE, value |-> ret.value + 1]
    /\ \A ns \in Namespaces :
         (ns.type = "number" /\ ret.op = "resetAutoID" /\ ret.ns = DigitString(ns))
           => NextAutoID(autoIDGenerators, ns) = [raised |-> FALSE, value |-> 0]

\* genAutoID(1) has returned a value k >= 1 from a counter that genAutoID("1")
\* takes k + 1 from next
C18_Witness ==
    /\ ret.op = "genAutoID" /\ ret.ns = NsNumber(1) /\ ret.value >= 1
    /\ NextAutoID(autoIDGenerators, NsString("1")).value = ret.value + 1

(***************************************************************************)
(* The properties of pickKeys and removeKeys.                              *)
(***************************************************************************)
\* the property names a key list names
Listed(keys) == { ToPropertyKey(keys[i]) : i \in 1 .. Len(keys) }

KeySet(obj) == { obj.e[i].k : i \in 1 .. Len(obj.e) }

\* C11: pickKeys(obj, keys) returns an object whose key set is exactly the
\* keys of obj that are listed in keys, each with obj's value, for every key
\* list, including lists that name keys obj does not have.
C11_PickKeys ==
    keysOp = "pickKeys" =>
        /\ KeySet(keysOut) = KeySet(keysObj) \cap Listed(keysArg)
        /\ \A k \in KeySet(keysOut) : Get(keysOut, k) = Get(keysObj, k)

\* C12: removeKeys(obj, keys) returns an object whose keys are exactly the own
\* keys of obj not listed in keys, each with obj's value and in obj's key
\* order, for every key list.
C12_RemoveKeys ==
    keysOp = "removeKeys" =>
        /\ ObjectKeys(keysOut)
             = SelectSeq(ObjectKeys(keysObj), LAMBDA k : k \notin Listed(keysArg))
        /\ \A k \in KeySet(keysOut) : Get(keysOut, k) = Get(keysObj, k)

(***************************************************************************)
(* The properties of isValid and isValidObject.                            *)
(***************************************************************************)
\* a string that is empty or made of white space only
Blank(chars) == \A i \in 1 .. Len(chars) : chars[i] \in WhiteSpace

\* null, undefined, NaN, or an empty or whitespace-only string
Rejected(v) ==
    \/ v.t \in {"null", "undefined"}
    \/ v.t = "number" /\ v.nan
    \/ v.t = "string" /\ Blank(v.s)

\* an empty array or an empty plain object
EmptyContainer(v) == v.t \in {"array", "plain"} /\ Len(v.e) = 0

\* C13: isValid(v) is false exactly when v is null, undefined, NaN or an empty
\* or whitespace-only string; isValidObject(v) is true exactly when isValid(v)
\* is true and v is not an empty array or an empty plain object.
C13_IsValid ==
    /\ validOp = "isValid" => (validOut = ~Rejected(validIn))
    /\ validOp = "isValidObject"
         => (validOut = (~Rejected(validIn) /\ ~EmptyContainer(validIn)))

(***************************************************************************)
(* The properties of encode and decode.                                    *)
(***************************************************************************)
\* C14: for every JSON-serializable value X and every encoding enc that
\* encode accepts, decode(encode(X, enc), enc) equals X.
C14_RoundTrip ==
    encPc = "decoded" => (~encOut.raised /\ encOut.value = encData)

====
